---- MODULE Spec2Model ----
(***************************************************************************)
(* pyfastlane: semantic-version comparison, version reconciliation against *)
(* App Store Connect and the release pipelines of scripts/pyfastlane.py.   *)
(*                                                                         *)
(* Python strings are modelled as sequences of one-character strings, so   *)
(* that str.split, str comparison, int() and str() are computed the way    *)
(* the interpreter computes them.                                          *)
(***************************************************************************)
EXTENDS Integers, Sequences, FiniteSets, TLC

(***************************************************************************)
(* Python built-ins used by the program                                    *)
(***************************************************************************)

\* The value None, where the program expects a record of the service.
None == [type |-> "NoneType"]

\* The decimal digits, indexed by value + 1.
Digits == <<"0", "1", "2", "3", "4", "5", "6", "7", "8", "9">>

\* ord(ch): the code point of a character (the characters the model uses).
Ord(ch) ==
    CASE ch = "." -> 46
      [] ch = "a" -> 97
      [] OTHER -> 47 + (CHOOSE i \in 1..10 : Digits[i] = ch)

IsDigit(ch) == \E i \in 1..10 : Digits[i] = ch

\* s < t on Python str: lexicographic by code point, a proper prefix is less.
RECURSIVE StrLt(_, _)
StrLt(s, t) ==
    IF t = <<>> THEN FALSE
    ELSE IF s = <<>> THEN TRUE
    ELSE IF Ord(Head(s)) # Ord(Head(t)) THEN Ord(Head(s)) < Ord(Head(t))
    ELSE StrLt(Tail(s), Tail(t))

\* s > t on Python str.
StrGt(s, t) == StrLt(t, s)

\* string.split(sep) for a one-character separator.
RECURSIVE split(_, _)
split(string, sep) ==
    IF string = <<>> THEN << <<>> >>
    ELSE LET rest == split(Tail(string), sep) IN
         IF Head(string) = sep THEN << <<>> >> \o rest
         ELSE << <<Head(string)>> \o Head(rest) >> \o Tail(rest)

\* str(n) / f'{n}' for a non-negative int.
RECURSIVE str(_)
str(n) == IF n < 10 THEN <<Digits[n + 1]>>
          ELSE str(n \div 10) \o <<Digits[(n % 10) + 1]>>

\* int(s) accepts a non-empty str of decimal digits and raises ValueError on
\* every other str of the model's alphabet.
IsDecimal(s) == s # <<>> /\ \A i \in 1..Len(s) : IsDigit(s[i])

RECURSIVE intOfDigits(_, _)
intOfDigits(s, acc) ==
    IF s = <<>> THEN acc
    ELSE intOfDigits(Tail(s), 10 * acc + (Ord(Head(s)) - 48))

\* int(s), where it does not raise.
int(s) == intOfDigits(s, 0)

(***************************************************************************)
(* class SemanticVersion                                                   *)
(***************************************************************************)

TypeError == [error |-> "TypeError"]

IsError(v) == v = TypeError

\* SemanticVersion.fromString: the parts stay str; the dataclass constructor
\* takes exactly three positional arguments.
fromString(string) ==
    LET parts == split(string, ".") IN
    IF Len(parts) = 3
    THEN [major |-> parts[1], minor |-> parts[2], patch |-> parts[3]]
    ELSE TypeError

\* SemanticVersion.__lt__ (the fields are str, so < and > are str comparisons).
__lt__(self, other) ==
    IF StrLt(self.major, other.major) THEN TRUE
    ELSE IF StrGt(self.major, other.major) THEN FALSE
    ELSE IF StrLt(self.minor, other.minor) THEN TRUE
    ELSE IF StrGt(self.major, other.major) THEN FALSE
    ELSE StrLt(self.patch, other.patch)

__eq__(self, other) ==
    self.major = other.major /\ self.minor = other.minor /\ self.patch = other.patch

__gt__(self, other) == ~(__lt__(self, other) \/ __eq__(self, other))

__le__(self, other) == __lt__(self, other) \/ __eq__(self, other)

\* Mutant of __str__: minor and patch change places.
__str___swapped(self) == self.major \o <<".">> \o self.patch \o <<".">> \o self.minor

__str__(self) == self.major \o <<".">> \o self.minor \o <<".">> \o self.patch


(***************************************************************************)
(* Bounds and the inputs drawn from them                                   *)
(***************************************************************************)

\* Longest action list given on the command line.
MaxActions == 2
\* Most build records the distribution service holds.
MaxBuilds == 2
\* Most app-store-version records the distribution service holds.
MaxVersions == 1
\* Most dot-separated components of a string handed to the parser.
MaxParts == 4

\* The keys of self.actions, in registration order.
ActionNames ==
    <<"versions", "version_check", "build", "upload_binary", "upload_metadata",
      "upload_screenshots", "replace_screenshots", "testflight", "submit",
      "release", "snapshot", "help">>

KnownActions == {ActionNames[i] : i \in 1..Len(ActionNames)}

\* Names an operator may type: the registered ones and one that is not.
ArgNames == KnownActions \cup {"bogus"}

\* All sequences over S of length at most n.
SeqUpTo(S, n) == UNION {[1..k -> S] : k \in 0..n}

\* Version components as the str of these numbers.
VersionNumbers == {1, 2, 10}

VersionString(M, m, p) == str(M) \o <<".">> \o str(m) \o <<".">> \o str(p)

\* Every "M.m.p" over VersionNumbers.
VersionStrings ==
    {VersionString(M, m, p) : M \in VersionNumbers, m \in VersionNumbers, p \in VersionNumbers}

\* appStoreState values: the editable one and one past it.
ReviewStates == {"PREPARE_FOR_SUBMISSION", "READY_FOR_SALE"}

\* Exit statuses os.system can report: success and failure.
ExitStatuses == {0, 1}

(***************************************************************************)
(* State                                                                   *)
(***************************************************************************)

VARIABLES
    actions,            \* the action list the __main__ loop iterates over
    idx,                \* index of the action being run (1-based)
    pc,                 \* position of the process in the code
    process,            \* "running", "exit0", "exit1" (exit(1)), "traceback"
    worktree,           \* "clean" or "dirty": what git status --porcelain sees
    buildNumber,        \* agvtool what-version (a str)
    marketingVersion,   \* agvtool what-marketing-version (a str)
    builds,             \* session.get_builds: records [version, uploadedDate]
    versions,           \* session.get_appStoreVersions: records
                        \*   [versionString, createdDate, appStoreState]
    tags,               \* names git tag -f has set
    trace,              \* what the process has run and printed, in order
    snapshotPos,        \* position of snapshot's device/language loops
    verA, verB, verC,   \* inputs of the comparison laws (version strings)
    reviewState,        \* input of the needNewVersion decision
    cmp,                \* results of the comparisons, once applied
    invocation,         \* which invocation of the script the above belong to
    other               \* the state of the invocation that is not running now

pipelineVars ==
    <<actions, idx, pc, process, worktree, buildNumber, marketingVersion,
      builds, versions, tags, trace, snapshotPos>>

pureVars == <<verA, verB, verC, reviewState, cmp>>

raceVars == <<invocation, other>>

vars == <<pipelineVars, pureVars, raceVars>>

\* What belongs to one invocation: its process and its checkout.  The service's
\* builds and versions are shared.
Locals ==
    [actions |-> actions, idx |-> idx, pc |-> pc, process |-> process,
     worktree |-> worktree, buildNumber |-> buildNumber,
     marketingVersion |-> marketingVersion, tags |-> tags, trace |-> trace,
     snapshotPos |-> snapshotPos]

(***************************************************************************)
(* Distribution service accessors                                          *)
(***************************************************************************)

\* max(records, key=...), as the index of the record it returns given the
\* keys in order: the first one whose key no other exceeds.
MaxIndex(keys) ==
    CHOOSE i \in 1..Len(keys) :
        /\ \A j \in 1..Len(keys) : keys[j] <= keys[i]
        /\ \A j \in 1..(i - 1) : keys[j] < keys[i]

\* Mutant of getLatestBuild: the last record listed instead of the latest.
getLatestBuild_lastListed(bs) ==
    IF bs = <<>> THEN None ELSE bs[Len(bs)]

\* Mutant of getLatestBuild: no record is taken for a build numbered 0.
getLatestBuild_defaultZero(bs) ==
    IF bs = <<>> THEN [version |-> str(0), uploadedDate |-> 0]
    ELSE bs[MaxIndex([i \in 1..Len(bs) |-> bs[i].uploadedDate])]

\* App.getLatestBuild: max() of an empty list raises, and the bare except
\* turns that into None.
getLatestBuild(bs) ==
    IF bs = <<>> THEN None
    ELSE bs[MaxIndex([i \in 1..Len(bs) |-> bs[i].uploadedDate])]

\* App.getLatestVersion.
getLatestVersion(vs) ==
    IF vs = <<>> THEN None
    ELSE vs[MaxIndex([i \in 1..Len(vs) |-> vs[i].createdDate])]

\* App._get_version_number / App._get_build_number: the first line agvtool
\* prints, which is the project's stored value.
_get_version_number == marketingVersion
_get_build_number == buildNumber

\* The needNewVersion decision of App.version_check, on two parsed versions.
NeedNewVersion(projectSemanticVersion, latestSemanticVersion, appStoreState) ==
    \/ __lt__(projectSemanticVersion, latestSemanticVersion)
    \/ /\ __eq__(projectSemanticVersion, latestSemanticVersion)
       /\ appStoreState # "PREPARE_FOR_SUBMISSION"

(***************************************************************************)
(* Control flow shared by the handlers                                     *)
(***************************************************************************)

\* One entry of the trace: a call of doAction ("doAction"), an external
\* command run by execute ("exec") or by subprocess.Popen ("popen"), a call to
\* the distribution service ("service"), a line logged ("log") or printed
\* ("print").
Event(kind, cmd, arg, result) ==
    [kind |-> kind, cmd |-> cmd, arg |-> arg, result |-> result]

\* The handler goes on at position p.
Continue(p) == pc' = p /\ process' = process /\ idx' = idx

\* The handler returns to the loop of __main__, which takes the next action.
Return == pc' = "main" /\ process' = process /\ idx' = idx + 1

\* exit(1).
Exit1 == pc' = "exited" /\ process' = "exit1" /\ idx' = idx

\* An exception nothing catches: the interpreter prints a traceback and the
\* process ends with exit code 1.
Raise == pc' = "exited" /\ process' = "traceback" /\ idx' = idx

\* execute(cmd): the command is logged and run; a non-zero result is exit(1).
\* `then` is the handler's continuation on success.
execute(cmd, arg, result, then) ==
    /\ trace' = Append(trace, Event("exec", cmd, arg, result))
    /\ IF result # 0 THEN Exit1 ELSE then

\* Where the body of version_check and of build_ipa return to.
AfterVersionCheck ==
    IF actions[idx] = "testflight" THEN Continue("build_ipa") ELSE Return

\* Mutant of AfterBuildIpa: testflight tags without uploading.
AfterBuildIpa_noUpload ==
    IF actions[idx] = "testflight" THEN Continue("tag_commit") ELSE Return

AfterBuildIpa ==
    IF actions[idx] = "testflight" THEN Continue("upload_binary") ELSE Return

\* The method self.actions maps a name to, as the position of its first step.
Entry(action_name) ==
    CASE action_name = "versions" -> "show_version_information"
      [] action_name = "build" -> "build_ipa"
      [] OTHER -> action_name

(***************************************************************************)
(* __main__ and App.doAction                                               *)
(***************************************************************************)

\* One iteration of `for action in actions: app.doAction(action)`: the lookup
\* in self.actions, and the KeyError branch for a name that is not a key.
doAction ==
    /\ pc = "main"
    /\ idx <= Len(actions)
    /\ LET called == Append(trace, Event("doAction", actions[idx], <<>>, 0)) IN
       IF actions[idx] \in KnownActions
       THEN /\ trace' = called
            /\ Continue(Entry(actions[idx]))
       ELSE /\ trace' = Append(called, Event("log", "Unknown action", actions[idx], 0))
            /\ Continue("help")
    /\ UNCHANGED <<actions, worktree, buildNumber, marketingVersion, builds,
                   versions, tags, snapshotPos, pureVars, raceVars>>

\* The loop is over: the interpreter ends with exit code 0.
MainExit ==
    /\ pc = "main"
    /\ idx > Len(actions)
    /\ pc' = "exited"
    /\ process' = "exit0"
    /\ UNCHANGED <<actions, idx, worktree, buildNumber, marketingVersion, builds,
                   versions, tags, trace, snapshotPos, pureVars, raceVars>>

\* Mutant of help: the listing is followed by exit(1).
help_fatal ==
    /\ pc = "help"
    /\ trace' = Append(trace, Event("print", "Available actions", ActionNames, 0))
    /\ Exit1
    /\ UNCHANGED <<actions, worktree, buildNumber, marketingVersion, builds,
                   versions, tags, snapshotPos, pureVars, raceVars>>

\* App.help: prints every registered action with its docstring.
help ==
    /\ pc = "help"
    /\ trace' = Append(trace, Event("print", "Available actions", ActionNames, 0))
    /\ Return
    /\ UNCHANGED <<actions, worktree, buildNumber, marketingVersion, builds,
                   versions, tags, snapshotPos, pureVars, raceVars>>

\* App.show_version_information: prints the project's version and build,
\* then the service's latest ones; writes nothing.  `available` is whether
\* the calls to the distribution service return (they raise otherwise).
show_version_information ==
    /\ pc = "show_version_information"
    /\ \E available \in BOOLEAN :
          LET project == Event("print", "Project",
                               <<_get_version_number, _get_build_number>>, 0)
              store == Event("print", "App Store",
                             <<getLatestVersion(versions), getLatestBuild(builds)>>, 0)
          IN IF available
             THEN /\ trace' = trace \o <<project, store>>
                  /\ Return
             ELSE /\ trace' = trace \o <<project, Event("service", "get_builds", <<>>, 1)>>
                  /\ Raise
    /\ UNCHANGED <<actions, worktree, buildNumber, marketingVersion, builds,
                   versions, tags, snapshotPos, pureVars, raceVars>>

(***************************************************************************)
(* App.ensure_git_clean / git_is_clean                                     *)
(***************************************************************************)

\* What `git status --porcelain` writes to stdout: a line per change when it
\* runs, nothing when git itself fails (its message goes to stderr).
PorcelainLines(result) ==
    IF result = 0 /\ worktree = "dirty" THEN <<"M">> ELSE <<>>

\* Mutant of git_is_clean: the answer is taken for granted.
git_is_clean_always(lines) == TRUE

\* git_is_clean reads the lines of stdout and never the exit status.
git_is_clean(lines) == Len(lines) = 0

\* testflight's first step.  `found` is whether the git executable exists
\* (Popen raises FileNotFoundError otherwise, and the handler exits).
ensure_git_clean ==
    /\ pc = "testflight"
    /\ \E found \in BOOLEAN, result \in ExitStatuses :
          IF ~found
          THEN /\ trace' = Append(trace, Event("log", "FileNotFoundError", <<>>, 0))
               /\ Exit1
          ELSE /\ trace' = Append(trace, Event("popen", "git status --porcelain",
                                               PorcelainLines(result), result))
               /\ IF git_is_clean(PorcelainLines(result))
                  THEN Continue("version_check")
                  ELSE Exit1
    /\ UNCHANGED <<actions, worktree, buildNumber, marketingVersion, builds,
                   versions, tags, snapshotPos, pureVars, raceVars>>

(***************************************************************************)
(* App.version_check                                                       *)
(***************************************************************************)

\* What the operator may type at the 'Enter new version: ' prompt.
PromptInputs == {VersionString(1, 2, 2), VersionString(1, 1, 1)}

\* agvtool rewrites the project files when the value it is given differs from
\* the stored one, and git status then reports them.
Written(old, new) == IF old # new THEN "dirty" ELSE worktree

\* What a call to the distribution service adds to the trace: the records it
\* returned, or that it raised.
Fetched(call, records) == Event("service", call, records, 0)
Unavailable(call) == Event("service", call, <<>>, 1)

\* Mutant of get_builds_raises: the call sits inside the try, so its
\* exception counts as "no builds".
get_builds_raises_swallowed ==
    /\ trace' = trace \o <<Unavailable("get_builds"),
                            Event("log", "No builds on App Store!", <<>>, 0)>>
    /\ Continue("version_check_version")

\* session.get_builds raises: getLatestBuild calls it before its try, so the
\* exception leaves version_check and doAction.
get_builds_raises ==
    /\ trace' = Append(trace, Unavailable("get_builds"))
    /\ Raise

\* session.get_appStoreVersions raises, likewise before the try.
get_appStoreVersions_raises ==
    /\ trace' = Append(trace, Unavailable("get_appStoreVersions"))
    /\ Raise

\* Mutant of new_build: the latest remote number itself.
new_build_same(latest_build) == int(latest_build.version)

\* new_build = int(latest_build.version) + 1
new_build(latest_build) == int(latest_build.version) + 1

\* First half of version_check: the build number.  `available` is whether
\* session.get_builds returns (it raises otherwise, outside the try).
version_check_build ==
    /\ pc = "version_check"
    /\ \E available \in BOOLEAN, result \in ExitStatuses :
          LET latest_build == getLatestBuild(builds)
              fetched == Append(trace, Fetched("get_builds", builds))
          IN
          IF ~available
          THEN /\ get_builds_raises
               /\ UNCHANGED <<buildNumber, worktree>>
          ELSE IF latest_build = None
          THEN /\ trace' = Append(fetched, Event("log", "No builds on App Store!", <<>>, 0))
               /\ Continue("version_check_version")
               /\ UNCHANGED <<buildNumber, worktree>>
          ELSE IF ~IsDecimal(latest_build.version)
          THEN /\ trace' = fetched
               /\ Raise
               /\ UNCHANGED <<buildNumber, worktree>>
          ELSE /\ trace' = Append(fetched, Event("exec", "agvtool new-version -all",
                                                 str(new_build(latest_build)), result))
               /\ IF result # 0 THEN Exit1 ELSE Continue("version_check_version")
               /\ buildNumber' = IF result = 0
                                 THEN str(new_build(latest_build))
                                 ELSE buildNumber
               /\ worktree' = IF result = 0
                              THEN Written(buildNumber, str(new_build(latest_build)))
                              ELSE worktree
    /\ UNCHANGED <<actions, marketingVersion, builds, versions, tags,
                   snapshotPos, pureVars, raceVars>>

\* Second half of version_check: the marketing version.  `newVersion` is what
\* the operator types when asked.
version_check_version ==
    /\ pc = "version_check_version"
    /\ \E available \in BOOLEAN, result \in ExitStatuses, newVersion \in PromptInputs :
          LET latest_version == getLatestVersion(versions)
              fetched == Append(trace, Fetched("get_appStoreVersions", versions))
          IN
          IF ~available
          THEN /\ get_appStoreVersions_raises
               /\ UNCHANGED <<marketingVersion, worktree>>
          ELSE IF latest_version = None
          THEN /\ trace' = Append(fetched, Event("log", "No versions on App Store!", <<>>, 0))
               /\ AfterVersionCheck
               /\ UNCHANGED <<marketingVersion, worktree>>
          ELSE LET latestSemanticVersion == fromString(latest_version.versionString)
                   projectSemanticVersion == fromString(_get_version_number)
               IN
               IF IsError(latestSemanticVersion) \/ IsError(projectSemanticVersion)
               THEN /\ trace' = fetched
                    /\ Raise
                    /\ UNCHANGED <<marketingVersion, worktree>>
               ELSE IF NeedNewVersion(projectSemanticVersion, latestSemanticVersion,
                                      latest_version.appStoreState)
               THEN /\ trace' = Append(fetched,
                                       Event("exec", "agvtool new-marketing-version -all",
                                             newVersion, result))
                    /\ IF result # 0 THEN Exit1 ELSE AfterVersionCheck
                    /\ marketingVersion' =
                          IF result = 0 THEN newVersion ELSE marketingVersion
                    /\ worktree' = IF result = 0
                                   THEN Written(marketingVersion, newVersion)
                                   ELSE worktree
               ELSE /\ trace' = Append(fetched, Event("log", "Versions good.", <<>>, 0))
                    /\ AfterVersionCheck
                    /\ UNCHANGED <<marketingVersion, worktree>>
    /\ UNCHANGED <<actions, buildNumber, builds, versions, tags, snapshotPos,
                   pureVars, raceVars>>

(***************************************************************************)
(* App.build_ipa                                                           *)
(***************************************************************************)

\* xcodebuild ... archive.
build_archive ==
    /\ pc = "build_ipa"
    /\ \E result \in ExitStatuses :
          execute("xcodebuild archive", <<>>, result, Continue("build_export"))
    /\ UNCHANGED <<actions, worktree, buildNumber, marketingVersion, builds,
                   versions, tags, snapshotPos, pureVars, raceVars>>

\* ExportOptions.plist is written, then xcodebuild -exportArchive.
build_export ==
    /\ pc = "build_export"
    /\ \E result \in ExitStatuses :
          execute("xcodebuild -exportArchive", <<>>, result, AfterBuildIpa)
    /\ UNCHANGED <<actions, worktree, buildNumber, marketingVersion, builds,
                   versions, tags, snapshotPos, pureVars, raceVars>>

(***************************************************************************)
(* Uploads, submit and the tag                                             *)
(***************************************************************************)

\* App.upload_binary up to its tag: xcrun altool --upload-package with the
\* project's build number and marketing version.
upload_binary ==
    /\ pc = "upload_binary"
    /\ \E result \in ExitStatuses :
          execute("xcrun altool --upload-package",
                  <<_get_build_number, _get_version_number>>, result,
                  Continue("tag_commit"))
    /\ UNCHANGED <<actions, worktree, buildNumber, marketingVersion, builds,
                   versions, tags, snapshotPos, pureVars, raceVars>>

\* App.upload_metadata up to its tag.
upload_metadata ==
    /\ pc = "upload_metadata"
    /\ \E result \in ExitStatuses :
          execute("deliver --skip_binary_upload --skip_screenshots", <<>>, result,
                  Continue("tag_commit"))
    /\ UNCHANGED <<actions, worktree, buildNumber, marketingVersion, builds,
                   versions, tags, snapshotPos, pureVars, raceVars>>

\* App.upload_screenshots up to its tag.
upload_screenshots ==
    /\ pc = "upload_screenshots"
    /\ \E result \in ExitStatuses :
          execute("deliver --skip_binary_upload --skip_metadata", <<>>, result,
                  Continue("tag_commit"))
    /\ UNCHANGED <<actions, worktree, buildNumber, marketingVersion, builds,
                   versions, tags, snapshotPos, pureVars, raceVars>>

\* App.replace_screenshots up to its tag.
replace_screenshots ==
    /\ pc = "replace_screenshots"
    /\ \E result \in ExitStatuses :
          execute("deliver --overwrite_screenshots", <<>>, result,
                  Continue("tag_commit"))
    /\ UNCHANGED <<actions, worktree, buildNumber, marketingVersion, builds,
                   versions, tags, snapshotPos, pureVars, raceVars>>

\* App.tag_commit(self._get_version_number()), the last statement of the four
\* upload handlers: git tag -f moves the tag when it exists.
tag_commit ==
    /\ pc = "tag_commit"
    /\ \E result \in ExitStatuses :
          /\ execute("git tag -f", _get_version_number, result, Return)
          /\ tags' = IF result = 0 THEN tags \cup {_get_version_number} ELSE tags
    /\ UNCHANGED <<actions, worktree, buildNumber, marketingVersion, builds,
                   versions, snapshotPos, pureVars, raceVars>>

\* App.submit.
submit ==
    /\ pc = "submit"
    /\ \E result \in ExitStatuses :
          execute("deliver submit_build", <<>>, result, Return)
    /\ UNCHANGED <<actions, worktree, buildNumber, marketingVersion, builds,
                   versions, tags, snapshotPos, pureVars, raceVars>>

\* App.release: its first statement calls self.increment_build_number, which
\* App does not define.  The AttributeError is not a KeyError, so doAction
\* does not catch it and the statements after it never run.
release ==
    /\ pc = "release"
    /\ trace' = trace
    /\ Raise
    /\ UNCHANGED <<actions, worktree, buildNumber, marketingVersion, builds,
                   versions, tags, snapshotPos, pureVars, raceVars>>

(***************************************************************************)
(* App.snapshot                                                            *)
(***************************************************************************)

\* self.screenshot_devices and self.screenshot_languages, from app.ini.
screenshot_devices == <<"iPhone 8">>
screenshot_languages == <<"en-US", "no">>

\* The (device, language) pairs in the order of the two nested loops.
SnapshotPairs ==
    [k \in 1..(Len(screenshot_devices) * Len(screenshot_languages)) |->
        [device |-> screenshot_devices[((k - 1) \div Len(screenshot_languages)) + 1],
         language |-> screenshot_languages[((k - 1) % Len(screenshot_languages)) + 1]]]

\* How many files glob finds for a device and language.
ExistingScreenshotCounts == {0, 5}

\* The next iteration of the loops, or the end of the handler.
NextPair ==
    IF snapshotPos < Len(SnapshotPairs)
    THEN Continue("snapshot_run") /\ snapshotPos' = snapshotPos + 1
    ELSE Return /\ snapshotPos' = 0

\* The app bundle is built once, for the first device.
snapshot_build ==
    /\ pc = "snapshot"
    /\ \E result \in ExitStatuses :
          IF screenshot_devices = <<>>
          THEN trace' = trace /\ Raise /\ snapshotPos' = snapshotPos
          ELSE /\ execute("xcodebuild build-for-testing", screenshot_devices[1], result,
                          Continue("snapshot_run"))
               /\ snapshotPos' = IF result = 0 THEN 1 ELSE snapshotPos
    /\ UNCHANGED <<actions, worktree, buildNumber, marketingVersion, builds,
                   versions, tags, pureVars, raceVars>>

\* One iteration: skipped when more than 4 screenshots exist; otherwise
\* fastlane run snapshot, with "no" passed as "no-NO".
snapshot_run ==
    /\ pc = "snapshot_run"
    /\ \E existing \in ExistingScreenshotCounts, result \in ExitStatuses :
          LET pair == SnapshotPairs[snapshotPos]
              language == IF pair.language = "no" THEN "no-NO" ELSE pair.language
          IN
          IF existing > 4
          THEN /\ trace' = Append(trace, Event("log", "Skipped", pair, 0))
               /\ NextPair
          ELSE /\ trace' = Append(trace, Event("exec", "fastlane run snapshot",
                                               <<pair.device, language>>, result))
               /\ IF result # 0 THEN Exit1 /\ snapshotPos' = snapshotPos
                  ELSE IF language = "no-NO"
                  THEN Continue("snapshot_rsync") /\ snapshotPos' = snapshotPos
                  ELSE NextPair
    /\ UNCHANGED <<actions, worktree, buildNumber, marketingVersion, builds,
                   versions, tags, pureVars, raceVars>>

\* The "no-NO" screenshots are copied to "no" ...
snapshot_rsync ==
    /\ pc = "snapshot_rsync"
    /\ \E result \in ExitStatuses :
          execute("rsync -r", <<>>, result, Continue("snapshot_rm"))
    /\ UNCHANGED <<actions, worktree, buildNumber, marketingVersion, builds,
                   versions, tags, snapshotPos, pureVars, raceVars>>

\* ... and the "no-NO" directory is removed.
snapshot_rm ==
    /\ pc = "snapshot_rm"
    /\ \E result \in ExitStatuses :
          /\ trace' = Append(trace, Event("exec", "rm -rf", <<>>, result))
          /\ IF result # 0 THEN Exit1 /\ snapshotPos' = snapshotPos ELSE NextPair
    /\ UNCHANGED <<actions, worktree, buildNumber, marketingVersion, builds,
                   versions, tags, pureVars, raceVars>>

(***************************************************************************)
(* The comparison laws, applied to drawn inputs                            *)
(***************************************************************************)

\* The six comparisons the laws are about, on the parsed inputs.
Compare ==
    /\ pc = "compare"
    /\ cmp.stage = "inputs"
    /\ LET a == fromString(verA)
           b == fromString(verB)
           c == fromString(verC)
       IN cmp' = [stage |-> "compared",
                  lt_ab |-> __lt__(a, b), lt_ba |-> __lt__(b, a),
                  eq_ab |-> __eq__(a, b), gt_ab |-> __gt__(a, b),
                  lt_bc |-> __lt__(b, c), lt_ac |-> __lt__(a, c)]
    /\ UNCHANGED <<pipelineVars, raceVars, verA, verB, verC, reviewState>>

\* version_check's decision with verA as the project's version, verB as the
\* latest remote version and reviewState as its appStoreState.
Decide ==
    /\ pc = "compare"
    /\ cmp.stage = "compared"
    /\ cmp' = [stage |-> "decided",
               needNewVersion |-> NeedNewVersion(fromString(verA), fromString(verB),
                                                 reviewState)]
    /\ UNCHANGED <<pipelineVars, raceVars, verA, verB, verC, reviewState>>

(***************************************************************************)
(* Specifications                                                          *)
(***************************************************************************)

\* args.actions as the loop sees it: ['help'] when none was given.
ActionLists(argvs) == {IF argv = <<>> THEN <<"help">> ELSE argv : argv \in argvs}

\* The state after App.__init__, for given sets of inputs.
InitPipeline(argvs, worktrees, buildNumbers, marketingVersions, buildLists, versionLists) ==
    /\ actions \in ActionLists(argvs)
    /\ idx = 1
    /\ pc = "main"
    /\ process = "running"
    /\ worktree \in worktrees
    /\ buildNumber \in buildNumbers
    /\ marketingVersion \in marketingVersions
    /\ builds \in buildLists
    /\ versions \in versionLists
    /\ tags = {}
    /\ trace = <<>>
    /\ snapshotPos = 0
    /\ verA = VersionString(1, 1, 1)
    /\ verB = VersionString(1, 1, 1)
    /\ verC = VersionString(1, 1, 1)
    /\ reviewState = "PREPARE_FOR_SUBMISSION"
    /\ cmp = [stage |-> "idle"]
    /\ invocation = 1
    /\ other = Locals

BuildRecord(version, uploadedDate) ==
    [version |-> version, uploadedDate |-> uploadedDate]

VersionRecord(versionString, createdDate, appStoreState) ==
    [versionString |-> versionString, createdDate |-> createdDate,
     appStoreState |-> appStoreState]

\* Whole invocations: any action list, a small remote state.
Init ==
    InitPipeline(SeqUpTo(ArgNames, MaxActions),
                 {"clean", "dirty"},
                 {str(7)},
                 {VersionString(1, 2, 1)},
                 {<<>>, <<BuildRecord(str(41), 1)>>},
                 {<<>>} \cup {<<VersionRecord(VersionString(1, 2, 1), 1, s)>> : s \in ReviewStates})

Next ==
    \/ doAction
    \/ MainExit
    \/ help
    \/ show_version_information
    \/ ensure_git_clean
    \/ version_check_build
    \/ version_check_version
    \/ build_archive
    \/ build_export
    \/ upload_binary
    \/ upload_metadata
    \/ upload_screenshots
    \/ replace_screenshots
    \/ tag_commit
    \/ submit
    \/ release
    \/ snapshot_build
    \/ snapshot_run
    \/ snapshot_rsync
    \/ snapshot_rm

Spec == Init /\ [][Next]_vars

\* Build labels the service may hold: two numbers and one that is no number.
BuildLabels == {str(42), str(9), VersionString(1, 2, 1)}

\* Timestamps of remote records: two, so that records can tie or differ.
Dates == {1, 2}

\* version_check alone, against every remote state within the bounds.
InitVersionCheck ==
    InitPipeline({<<"version_check">>},
                 {"clean"},
                 {str(10), str(50)},
                 {VersionString(1, 2, 1)},
                 SeqUpTo({BuildRecord(l, d) : l \in BuildLabels, d \in Dates}, MaxBuilds),
                 SeqUpTo({VersionRecord(v, d, s) :
                              v \in {VersionString(1, 2, 1), VersionString(1, 1, 2)},
                              d \in Dates, s \in ReviewStates}, MaxVersions))

NextVersionCheck ==
    \/ doAction
    \/ MainExit
    \/ version_check_build
    \/ version_check_version

SpecVersionCheck == InitVersionCheck /\ [][NextVersionCheck]_vars

\* The comparison laws on every triple of version strings.
InitCompare ==
    /\ actions = <<>>
    /\ idx = 1
    /\ pc = "compare"
    /\ process = "running"
    /\ worktree = "clean"
    /\ buildNumber = str(1)
    /\ marketingVersion = VersionString(1, 1, 1)
    /\ builds = <<>>
    /\ versions = <<>>
    /\ tags = {}
    /\ trace = <<>>
    /\ snapshotPos = 0
    /\ verA \in VersionStrings
    /\ verB \in VersionStrings
    /\ verC \in VersionStrings
    /\ reviewState \in ReviewStates
    /\ cmp = [stage |-> "inputs"]
    /\ invocation = 1
    /\ other = Locals

NextCompare == Compare \/ Decide

SpecCompare == InitCompare /\ [][NextCompare]_vars

\* Components a string handed to fromString may have: decimal numbers, one
\* with a leading zero, and one that is no number.
ParseComponents == {str(1), str(2), str(10), <<"0", "1">>, <<"a">>}

\* '.'.join(parts).
RECURSIVE Join(_)
Join(parts) ==
    IF Len(parts) = 1 THEN parts[1]
    ELSE parts[1] \o <<".">> \o Join(Tail(parts))

\* Strings of two to MaxParts components.
ParseInputs ==
    {Join(parts) : parts \in UNION {[1..k -> ParseComponents] : k \in 2..MaxParts}}

\* fromString applied to verA.
Parse ==
    /\ pc = "parse"
    /\ cmp.stage = "inputs"
    /\ cmp' = [stage |-> "parsed", value |-> fromString(verA)]
    /\ UNCHANGED <<pipelineVars, raceVars, verA, verB, verC, reviewState>>

\* The parsed version is rendered with __str__ and the rendering parsed again.
Render ==
    /\ pc = "parse"
    /\ cmp.stage = "parsed"
    /\ ~IsError(cmp.value)
    /\ cmp' = [stage |-> "rendered", value |-> cmp.value,
               text |-> __str__(cmp.value),
               again |-> fromString(__str__(cmp.value))]
    /\ UNCHANGED <<pipelineVars, raceVars, verA, verB, verC, reviewState>>

\* The parser on every string within the bounds.
InitParse ==
    /\ actions = <<>>
    /\ idx = 1
    /\ pc = "parse"
    /\ process = "running"
    /\ worktree = "clean"
    /\ buildNumber = str(1)
    /\ marketingVersion = VersionString(1, 1, 1)
    /\ builds = <<>>
    /\ versions = <<>>
    /\ tags = {}
    /\ trace = <<>>
    /\ snapshotPos = 0
    /\ verA \in ParseInputs
    /\ verB = VersionString(1, 1, 1)
    /\ verC = VersionString(1, 1, 1)
    /\ reviewState = "PREPARE_FOR_SUBMISSION"
    /\ cmp = [stage |-> "inputs"]
    /\ invocation = 1
    /\ other = Locals

NextParse == Parse \/ Render

SpecParse == InitParse /\ [][NextParse]_vars

(***************************************************************************)
(* The testflight pipeline alone, and two invocations of it                *)
(***************************************************************************)

\* Marketing versions a project or the service may hold: a well-formed one,
\* one with a component that is no number, and one with two components.
MalformedVersions == {Join(<<<<"a">>, str(2), str(1)>>), Join(<<str(1), str(2)>>)}

\* testflight from a clean tree, against every remote state within the bounds.
InitTestflight ==
    InitPipeline({<<"testflight">>},
                 {"clean"},
                 {str(7)},
                 {VersionString(1, 2, 1)} \cup MalformedVersions,
                 SeqUpTo({BuildRecord(l, d) : l \in {str(42), str(9)}, d \in Dates},
                         MaxBuilds),
                 SeqUpTo({VersionRecord(v, 1, s) :
                              v \in {VersionString(1, 2, 1)} \cup MalformedVersions,
                              s \in ReviewStates}, MaxVersions))

NextTestflight ==
    \/ doAction
    \/ MainExit
    \/ ensure_git_clean
    \/ version_check_build
    \/ version_check_version
    \/ build_archive
    \/ build_export
    \/ upload_binary
    \/ tag_commit

SpecTestflight == InitTestflight /\ [][NextTestflight]_vars

\* The operating system runs the other invocation for a while: the two
\* processes take turns at any point between two steps.
Switch ==
    /\ invocation' = 3 - invocation
    /\ other' = Locals
    /\ actions' = other.actions
    /\ idx' = other.idx
    /\ pc' = other.pc
    /\ process' = other.process
    /\ worktree' = other.worktree
    /\ buildNumber' = other.buildNumber
    /\ marketingVersion' = other.marketingVersion
    /\ tags' = other.tags
    /\ trace' = other.trace
    /\ snapshotPos' = other.snapshotPos
    /\ UNCHANGED <<builds, versions, pureVars>>

\* The build numbers altool has delivered, by either invocation.
UploadedBuildNumbers ==
    {tr[i].arg[1] : <<tr, i>> \in
        {<<tr, i>> \in {trace, other.trace} \X (1..(Len(trace) + Len(other.trace))) :
            /\ i <= Len(tr)
            /\ tr[i].cmd = "xcrun altool --upload-package"
            /\ tr[i].result = 0}}

\* The service finishes processing a delivered package: from then on
\* get_builds lists it, as the most recently uploaded build.
service_processes ==
    /\ builds # <<>>
    /\ \E n \in UploadedBuildNumbers :
          /\ \A k \in 1..Len(builds) : builds[k].version # n
          /\ builds' = Append(builds,
                               BuildRecord(n, 1 + getLatestBuild(builds).uploadedDate))
    /\ UNCHANGED <<actions, idx, pc, process, worktree, buildNumber,
                   marketingVersion, versions, tags, trace, snapshotPos,
                   pureVars, raceVars>>

\* Two invocations of testflight, each in a clean checkout of its own at the
\* same commit, against one application with one build on the service.
InitRace ==
    InitPipeline({<<"testflight">>},
                 {"clean"},
                 {str(7)},
                 {VersionString(1, 2, 1)},
                 {<<BuildRecord(str(41), 1)>>},
                 {<<>>, <<VersionRecord(VersionString(1, 2, 1), 1, "PREPARE_FOR_SUBMISSION")>>})

NextRace ==
    \/ doAction
    \/ MainExit
    \/ ensure_git_clean
    \/ version_check_build
    \/ version_check_version
    \/ build_archive
    \/ build_export
    \/ upload_binary
    \/ tag_commit
    \/ Switch
    \/ service_processes

SpecRace == InitRace /\ [][NextRace]_vars

(***************************************************************************)
(* Vocabulary of the properties                                            *)
(***************************************************************************)

\* The (major, minor, patch) of an "M.m.p" string as integers.
IntTriple(string) ==
    LET parts == split(string, ".") IN <<int(parts[1]), int(parts[2]), int(parts[3])>>

\* Lexicographic order on integer triples.
TripleLt(s, t) ==
    \/ s[1] < t[1]
    \/ s[1] = t[1] /\ s[2] < t[2]
    \/ s[1] = t[1] /\ s[2] = t[2] /\ s[3] < t[3]

\* Index of the latest doAction entry of the trace (0 when there is none).
LastDispatch ==
    LET calls == {i \in 1..Len(trace) : trace[i].kind = "doAction"} IN
    IF calls = {} THEN 0 ELSE CHOOSE i \in calls : \A j \in calls : j <= i

\* What the action dispatched last has run and printed so far.
RunEvents == SubSeq(trace, LastDispatch + 1, Len(trace))

IsCommand(e) == e.kind \in {"exec", "popen"}

\* Every external command among the entries has exited with status 0.
FullySuccessful(events) ==
    \A i \in 1..Len(events) : IsCommand(events[i]) => events[i].result = 0

\* The action before idx has returned to the loop, and no other has started.
Completed(action_name) ==
    /\ \/ pc = "main"
       \/ pc = "exited" /\ process = "exit0"
    /\ idx > 1
    /\ actions[idx - 1] = action_name

\* The action at idx has ended the process.
Aborted(action_name) ==
    /\ pc = "exited"
    /\ process # "exit0"
    /\ idx <= Len(actions)
    /\ actions[idx] = action_name

\* The pipeline stage an entry of the trace belongs to ("" for none).
StageOf(e) ==
    CASE e.cmd = "git status --porcelain" -> "assertGitClean"
      [] e.cmd \in {"get_builds", "agvtool new-version -all"} -> "reconcileBuildNumber"
      [] e.cmd = "agvtool new-marketing-version -all" -> "setMarketingVersion"
      [] e.cmd \in {"xcodebuild archive", "xcodebuild -exportArchive"} -> "buildArchive"
      [] e.cmd = "xcrun altool --upload-package" -> "uploadBinary"
      [] e.cmd = "deliver --submit_for_review" -> "uploadMetadataAndSubmitForReview"
      [] e.cmd = "git tag -f" -> "tag"
      [] OTHER -> ""

\* The stages of a sequence of entries, in order, each named once per visit.
RECURSIVE Stages(_)
Stages(events) ==
    IF events = <<>> THEN <<>>
    ELSE LET rest == Stages(Tail(events))
             stage == StageOf(Head(events))
         IN IF stage = "" \/ (rest # <<>> /\ Head(rest) = stage)
            THEN rest
            ELSE <<stage>> \o rest

(***************************************************************************)
(* C1.  needNewVersion is true exactly when the local version is below the *)
(* remote one in the integer (major, minor, patch) order, or equal to it   *)
(* with a review state other than PREPARE_FOR_SUBMISSION.                  *)
(***************************************************************************)
C1_NeedNewVersionLaw ==
    cmp.stage = "decided" =>
        cmp.needNewVersion =
            (\/ TripleLt(IntTriple(verA), IntTriple(verB))
             \/ /\ IntTriple(verA) = IntTriple(verB)
                /\ reviewState # "PREPARE_FOR_SUBMISSION")

(***************************************************************************)
(* C2.  SemanticVersion comparison is a strict total order: exactly one of *)
(* a < b, a == b, a > b holds, a < b and b < a never both hold, and a < b  *)
(* and b < c imply a < c.                                                  *)
(***************************************************************************)
C2_StrictTotalOrder ==
    cmp.stage = "compared" =>
        /\ Cardinality({k \in {"lt", "eq", "gt"} :
                           \/ k = "lt" /\ cmp.lt_ab
                           \/ k = "eq" /\ cmp.eq_ab
                           \/ k = "gt" /\ cmp.gt_ab}) = 1
        /\ ~(cmp.lt_ab /\ cmp.lt_ba)
        /\ (cmp.lt_ab /\ cmp.lt_bc => cmp.lt_ac)

(***************************************************************************)
(* C3.  For versions parsed from "M.m.p" strings, a < b holds exactly when *)
(* a's integer triple is lexicographically below b's.                      *)
(***************************************************************************)
C3_LtIsIntegerLexicographic ==
    cmp.stage = "compared" =>
        cmp.lt_ab = TripleLt(IntTriple(verA), IntTriple(verB))

(***************************************************************************)
(* C4.  When a remote build exists and the latest one (maximum            *)
(* uploadedDate) has label n, build-number reconciliation sets the local   *)
(* build number to n + 1, whatever the local value was before.             *)
(***************************************************************************)
C4_BuildNumberIsLatestPlusOne ==
    [][(pc = "version_check" /\ pc' = "version_check_version" /\ builds # <<>>) =>
          \E i \in 1..Len(builds) :
              /\ \A j \in 1..Len(builds) : builds[j].uploadedDate <= builds[i].uploadedDate
              /\ IsDecimal(builds[i].version)
              /\ IsDecimal(buildNumber')
              /\ int(buildNumber') = int(builds[i].version) + 1]_vars

\* Reconciliation has replaced the local build number 50 (the tree is dirty,
\* so the number was not 10 before) by the lower 10, taken from a record that
\* is the latest but not the highest-numbered.
C4_Witness ==
    /\ pc = "version_check_version"
    /\ worktree = "dirty"
    /\ Len(builds) = 2
    /\ builds[1].uploadedDate > builds[2].uploadedDate
    /\ builds[1].version = str(9)
    /\ builds[2].version = str(42)
    /\ buildNumber = str(10)
    /\ trace[Len(trace)] = Event("exec", "agvtool new-version -all", str(10), 0)

(***************************************************************************)
(* C5.  When the distribution service reports no build records,            *)
(* build-number reconciliation leaves the local build number unchanged,    *)
(* runs no command, and the process goes on to the marketing version.      *)
(***************************************************************************)
C5_NoBuildsLeavesBuildNumber ==
    [][(/\ pc = "version_check"
        /\ Len(trace') > Len(trace)
        /\ trace'[Len(trace) + 1] = Fetched("get_builds", <<>>)) =>
          /\ buildNumber' = buildNumber
          /\ \A i \in (Len(trace) + 1)..Len(trace') : ~IsCommand(trace'[i])
          /\ process' = "running"
          /\ pc' = "version_check_version"]_vars

\* The service has reported no builds and reconciliation has gone on.
C5_Witness ==
    /\ pc = "version_check_version"
    /\ builds = <<>>
    /\ buildNumber = str(50)
    /\ \E i \in 1..Len(trace) : trace[i] = Fetched("get_builds", <<>>)

(***************************************************************************)
(* C6.  A testflight run whose source-control status is not empty ends     *)
(* with exit code 1 right there: nothing is run after the status command.  *)
(***************************************************************************)
C6_DirtyTreeAborts ==
    \A i \in 1..Len(trace) :
        (trace[i].cmd = "git status --porcelain" /\ trace[i].arg # <<>>) =>
            /\ i = Len(trace)
            /\ pc = "exited"
            /\ process = "exit1"

\* testflight has met a dirty tree.
C6_Witness ==
    /\ Aborted("testflight")
    /\ trace[Len(trace)] = Event("popen", "git status --porcelain", <<"M">>, 0)

(***************************************************************************)
(* C8.  A release run in which every external command succeeds runs        *)
(* build-number reconciliation, archive build, upload-and-submit and the   *)
(* tag, in that order, and does not end before the build.                  *)
(***************************************************************************)
C8_ReleaseRunsItsStages ==
    /\ Aborted("release") => ~FullySuccessful(RunEvents)
    /\ Completed("release") =>
          Stages(RunEvents) = <<"reconcileBuildNumber", "buildArchive",
                                "uploadMetadataAndSubmitForReview", "tag">>

(***************************************************************************)
(* C9 as stated.  The stages of a fully successful testflight run are       *)
(* exactly git-clean check, build-number reconciliation, archive build,    *)
(* binary upload, tag; the marketing version is not written.               *)
(***************************************************************************)
C9_TestflightStagesAsStated ==
    (Completed("testflight") /\ FullySuccessful(RunEvents)) =>
        Stages(RunEvents) = <<"assertGitClean", "reconcileBuildNumber",
                              "buildArchive", "uploadBinary", "tag">>

(***************************************************************************)
(* C9 as amended.  The stages of a fully successful testflight run are, in *)
(* this order: git-clean check, build-number reconciliation, a write of    *)
(* the marketing version when version_check asked the operator for one,    *)
(* archive build, binary upload, tag.  The marketing version is then what  *)
(* the operator entered.                                                   *)
(***************************************************************************)
C9_TestflightStages ==
    (Completed("testflight") /\ FullySuccessful(RunEvents)) =>
        \/ Stages(RunEvents) = <<"assertGitClean", "reconcileBuildNumber",
                                 "buildArchive", "uploadBinary", "tag">>
        \/ /\ Stages(RunEvents) = <<"assertGitClean", "reconcileBuildNumber",
                                    "setMarketingVersion", "buildArchive",
                                    "uploadBinary", "tag">>
           /\ \E i \in 1..Len(RunEvents) :
                 /\ RunEvents[i].cmd = "agvtool new-marketing-version -all"
                 /\ RunEvents[i].arg \in PromptInputs
                 /\ RunEvents[i].arg = marketingVersion

\* A testflight run has returned after writing the marketing version.
C9_Witness ==
    /\ Completed("testflight")
    /\ FullySuccessful(RunEvents)
    /\ \E i \in 1..Len(RunEvents) :
          RunEvents[i].cmd = "agvtool new-marketing-version -all"
    /\ marketingVersion \in tags

(***************************************************************************)
(* C10.  Once an external command has returned a non-zero exit status,     *)
(* the process ends with exit code 1 and runs nothing more.                *)
(***************************************************************************)
C10_FailedCommandIsFatal ==
    \A i \in 1..Len(trace) :
        (IsCommand(trace[i]) /\ trace[i].result # 0) =>
            /\ i = Len(trace)
            /\ pc = "exited"
            /\ process = "exit1"

(***************************************************************************)
(* C11.  A name that is not registered is logged and answered with the     *)
(* help listing of all actions; nothing else runs for it, no error escapes,*)
(* the actions after it are dispatched in the order given, and the process *)
(* ends with a non-zero exit code only inside a registered action.         *)
(***************************************************************************)
Dispatched == SelectSeq(trace, LAMBDA e : e.kind = "doAction")

C11_UnknownActionIsRecovered ==
    /\ \A i \in 1..Len(trace) :
          (trace[i].kind = "doAction" /\ trace[i].cmd \notin KnownActions) =>
              /\ Len(trace) > i
              /\ trace[i + 1] = Event("log", "Unknown action", trace[i].cmd, 0)
              /\ Len(trace) > i + 1 =>
                    trace[i + 2] = Event("print", "Available actions", ActionNames, 0)
              /\ Len(trace) > i + 2 => trace[i + 3].kind = "doAction"
    /\ Len(Dispatched) <= Len(actions)
    /\ \A k \in 1..Len(Dispatched) : Dispatched[k].cmd = actions[k]
    /\ process \in {"exit1", "traceback"} => actions[idx] \in KnownActions
    /\ process = "exit0" => Len(Dispatched) = Len(actions)

\* An unknown name was given first, and the action after it has run to the end.
C11_Witness ==
    /\ process = "exit0"
    /\ Len(actions) = 2
    /\ actions[1] \notin KnownActions
    /\ actions[2] = "submit"
    /\ trace[Len(trace)] = Event("exec", "deliver submit_build", <<>>, 0)

\* A string of exactly three components, each a decimal number.
WellFormed(string) ==
    LET parts == split(string, ".") IN
    Len(parts) = 3 /\ \A i \in 1..3 : IsDecimal(parts[i])

(***************************************************************************)
(* C14.  Parsing a string that does not have exactly three numeric         *)
(* components fails and yields no version.                                 *)
(***************************************************************************)
C14_MalformedStringsFail ==
    (cmp.stage = "parsed" /\ ~WellFormed(verA)) => IsError(cmp.value)

(***************************************************************************)
(* C18.  For a valid "M.m.p" string, parsing, rendering and parsing again  *)
(* yields a version equal to the first parse.                              *)
(***************************************************************************)
C18_RoundTrip ==
    (cmp.stage = "rendered" /\ WellFormed(verA)) =>
        /\ ~IsError(cmp.again)
        /\ __eq__(cmp.again, cmp.value)

\* A valid string with a two-digit and a zero-led component has gone round.
C18_Witness ==
    /\ cmp.stage = "rendered"
    /\ verA = str(10) \o <<".">> \o <<"0", "1">> \o <<".">> \o str(2)
    /\ cmp.text = verA

C12_UploadAboveEveryRemoteBuild ==
    \A i \in 1..Len(trace) :
        trace[i].cmd = "xcrun altool --upload-package" =>
            \A k \in 1..Len(builds) :
                int(trace[i].arg[1]) > int(builds[k].version)

(***************************************************************************)
(* C13.  In a testflight run that has passed the git-clean gate, the       *)
(* working tree is clean when the archive is built, when the binary is     *)
(* uploaded and when the tag is applied.                                   *)
(***************************************************************************)
C13_PublishedTreeIsCommitted ==
    (pc \in {"build_ipa", "build_export", "upload_binary", "tag_commit"} \/ tags # {})
        => worktree = "clean"

(***************************************************************************)
(* C15.  When the service has returned its versions and the local          *)
(* marketing version or the latest remote version string is malformed,     *)
(* version_check ends the process with an error at once: nothing is        *)
(* decided, no command is issued and the marketing version stays.          *)
(***************************************************************************)
C15_MalformedVersionAborts ==
    [][(/\ pc = "version_check_version"
        /\ Len(trace') > Len(trace)
        /\ trace'[Len(trace) + 1].result = 0
        /\ versions # <<>>
        /\ \/ ~WellFormed(marketingVersion)
           \/ ~WellFormed(getLatestVersion(versions).versionString))
       => /\ pc' = "exited"
          /\ process' \in {"exit1", "traceback"}
          /\ Len(trace') = Len(trace) + 1
          /\ marketingVersion' = marketingVersion]_vars

\* The commands whose handlers end with tag_commit.
TagOwners ==
    {"xcrun altool --upload-package",
     "deliver --skip_binary_upload --skip_screenshots",
     "deliver --skip_binary_upload --skip_metadata",
     "deliver --overwrite_screenshots"}

(***************************************************************************)
(* C17.  git tag -f runs only directly after the command of the handler    *)
(* that owns it has exited with status 0, never after a command of the     *)
(* invocation has failed, and a tag that was set stays set.                *)
(***************************************************************************)
C17_TagOnlyAfterSuccess ==
    \A i \in 1..Len(trace) :
        trace[i].cmd = "git tag -f" =>
            /\ i > 1
            /\ trace[i - 1].kind = "exec"
            /\ trace[i - 1].cmd \in TagOwners
            /\ trace[i - 1].result = 0
            /\ \A j \in 1..(i - 1) : IsCommand(trace[j]) => trace[j].result = 0
            /\ trace[i].result = 0 => trace[i].arg \in tags

\* The build lists an invocation's get_builds calls have returned.
ReconciledAgainst(tr) ==
    {tr[i].arg : i \in {j \in 1..Len(tr) : tr[j].cmd = "get_builds" /\ tr[j].result = 0}}

\* The build numbers an invocation has handed to altool.
Sent(tr) ==
    {tr[i].arg[1] : i \in {j \in 1..Len(tr) : tr[j].cmd = "xcrun altool --upload-package"}}

(***************************************************************************)
(* C19.  Two concurrent testflight invocations that have reconciled        *)
(* against the same build list both upload the number after its latest     *)
(* build, hence the same number; the witness is the interleaving in which  *)
(* they have done so while the service still lists neither upload.         *)
(***************************************************************************)
C19_SameLatestSameBuildNumber ==
    \A a \in ReconciledAgainst(trace), b \in ReconciledAgainst(other.trace) :
        (a = b /\ a # <<>>) =>
            \A m \in Sent(trace), n \in Sent(other.trace) :
                /\ m = n
                /\ m = str(int(getLatestBuild(a).version) + 1)

C19_Witness ==
    /\ builds = <<BuildRecord(str(41), 1)>>
    /\ ReconciledAgainst(trace) = {builds}
    /\ ReconciledAgainst(other.trace) = {builds}
    /\ UploadedBuildNumbers = {str(42)}
    /\ \E i \in 1..Len(trace) :
          trace[i] = Event("exec", "xcrun altool --upload-package",
                           <<str(42), VersionString(1, 2, 1)>>, 0)
    /\ \E i \in 1..Len(other.trace) :
          other.trace[i] = Event("exec", "xcrun altool --upload-package",
                                 <<str(42), VersionString(1, 2, 1)>>, 0)

(***************************************************************************)
(* C20.  After version_check has returned with a version on the service,   *)
(* the needNewVersion decision on the project's marketing version and the  *)
(* latest remote version is false.                                         *)
(***************************************************************************)
C20_ResultNeedsNoNewVersion ==
    (Completed("version_check") /\ versions # <<>>) =>
        LET latest_version == getLatestVersion(versions) IN
        ~NeedNewVersion(fromString(marketingVersion),
                        fromString(latest_version.versionString),
                        latest_version.appStoreState)
====
